---------------------------- MODULE Spec2Model ----------------------------
(***************************************************************************)
(* Model of the Revisit e-commerce backend: the auth routes                *)
(* (routes/auth.js), the auth middleware (middleware/auth.js), the         *)
(* category routes (routes/categories.js) and the schema and seed data of  *)
(* database/init.js.                                                       *)
(*                                                                         *)
(* Every handler is an async function: between two awaited store queries   *)
(* other requests may run.  Each awaited query is therefore one action;    *)
(* the synchronous code that follows a query (validation, hashing,         *)
(* signing, fs.existsSync/unlinkSync, building the response) belongs to    *)
(* the action of the query it follows.  A request occupies one of two      *)
(* handler slots from its arrival to its response; `last` holds the        *)
(* request being answered, with its response, until it is on the wire.     *)
(*                                                                         *)
(* Assumptions about the environment: JWT_SECRET is configured; bcrypt is  *)
(* a salted one-way function whose compare accepts exactly the hashed      *)
(* password; the filenames multer generates do not collide; SQLite never   *)
(* answers SQLITE_BUSY.  The clock counts seconds (the resolution of both  *)
(* CURRENT_TIMESTAMP and the token's iat/exp).                             *)
(***************************************************************************)
EXTENDS Integers, Sequences, FiniteSets, TLC

VARIABLES
    users,       \* rows of table users
    categories,  \* rows of table categories
    catSeq,      \* sqlite_sequence of categories (AUTOINCREMENT)
    files,       \* filenames present in the uploads directory
    fileSeq,     \* number of filenames multer has generated
    now,         \* the clock, in seconds
    tokens,      \* tokens handed out by login (what a client can present)
    req,         \* the request each handler slot is running
    started,     \* number of requests received
    last         \* the request being answered, with its response

vars == <<users, categories, catSeq, files, fileSeq, now, tokens, req, started, last>>

-----------------------------------------------------------------------------
(* Bounds of the model *)

MaxRequests == 2
MaxTicks == 2
MaxCatTicks == 1

\* Two requests can be in flight at once.  The slots are interchangeable, so a
\* request arriving takes the first free one.
Slots == {1, 2}

-----------------------------------------------------------------------------
(* Inputs *)

\* A body field that is undefined or the empty string: both are falsy in JS.
Absent == ""

Usernames == {"admin", "bob", "carol"}
Emails == {"admin@example.com", "bob@example.com", "carol@example.com"}
Passwords == {"password123", "hunter2"}
Salts == {"salt1"}

-----------------------------------------------------------------------------
(* bcryptjs *)

\* A value of the TEXT column password: a bcrypt digest, which names the
\* algorithm and the salt, or a text stored as it came.
BcryptHash(password, salt) == [alg |-> "bcrypt", salt |-> salt, of |-> password]
Plaintext(password) == [alg |-> "none", salt |-> "", of |-> password]

BcryptCompare(password, hash) ==
    /\ hash.alg = "bcrypt"
    /\ hash = BcryptHash(password, hash.salt)

-----------------------------------------------------------------------------
(* jsonwebtoken *)

JWT_SECRET == "server-secret"

\* expiresIn: '1h', in seconds
ExpiresIn == 3600

HmacSign(payload, key) == [key |-> key, over |-> payload]

JwtPayload(t) == [id |-> t.id, username |-> t.username, email |-> t.email,
                  iat |-> t.iat, exp |-> t.exp]

JwtSign(id, username, email, key, time) ==
    LET p == [id |-> id, username |-> username, email |-> email,
              iat |-> time, exp |-> time + ExpiresIn]
    IN  [id |-> id, username |-> username, email |-> email,
         iat |-> time, exp |-> time + ExpiresIn, sig |-> HmacSign(p, key)]

\* jwt.verify: the signature must match and the clock must be before exp
\* (jsonwebtoken throws TokenExpiredError when clockTimestamp >= exp).
JwtVerify(t, key, time) ==
    /\ t.sig = HmacSign(JwtPayload(t), key)
    /\ time < t.exp

\* What a client can do to a token it holds: alter the signature, or extend
\* the expiry and keep the old signature.
Tampered(t) ==
    { [t EXCEPT !.sig = HmacSign(JwtPayload(t), "other-secret")],
      [t EXCEPT !.exp = t.exp + ExpiresIn] }

-----------------------------------------------------------------------------
(* middleware/auth.js *)

\* The Authorization header: absent, or present with the word that follows
\* the first space (cred is empty when there is none: "Bearer", "Bearer ").
NoHeader == [present |-> FALSE, cred |-> {}]
Bearer(c) == [present |-> TRUE, cred |-> c]

Headers ==
    {NoHeader, Bearer({})}
      \cup { Bearer({t}) : t \in tokens }
      \cup { Bearer({t}) : t \in UNION { Tampered(u) : u \in tokens } }

Pass(t) == [ok |-> TRUE, status |-> 0, msg |-> "", user |-> {t}]
Deny(m) == [ok |-> FALSE, status |-> 401, msg |-> m, user |-> {}]

MsgNoToken == "No authentication token, authorization denied"
MsgBadToken == "Token is not valid"

\* req.headers.authorization.split(' ')[1]: with no header the split throws
\* a TypeError inside the try, and the catch answers 'Token is not valid'.
AuthLenient(hdr, time) ==
    IF ~hdr.present THEN Deny(MsgBadToken)
    ELSE IF hdr.cred = {} THEN Deny(MsgNoToken)
    ELSE LET t == CHOOSE x \in hdr.cred : TRUE
         IN  Pass(t)

AuthNoExpiry(hdr, time) ==
    IF ~hdr.present THEN Deny(MsgBadToken)
    ELSE IF hdr.cred = {} THEN Deny(MsgNoToken)
    ELSE LET t == CHOOSE x \in hdr.cred : TRUE
         IN  IF t.sig = HmacSign(JwtPayload(t), JWT_SECRET) THEN Pass(t)
             ELSE Deny(MsgBadToken)

Auth(hdr, time) ==
    IF ~hdr.present THEN Deny(MsgBadToken)
    ELSE IF hdr.cred = {} THEN Deny(MsgNoToken)
    ELSE LET t == CHOOSE x \in hdr.cred : TRUE
         IN  IF JwtVerify(t, JWT_SECRET, time) THEN Pass(t)
             ELSE Deny(MsgBadToken)

-----------------------------------------------------------------------------
(* Requests *)

\* A handler slot with no request in it.
Idle ==
    [kind |-> "none", pc |-> "idle",
     hdr |-> "none",        \* what the client sent as its credential
     username |-> Absent, email |-> Absent, password |-> Absent,
     known |-> FALSE,       \* login: the credentials were registered on arrival
     user |-> 0,            \* req.user.id
     id |-> 0, name |-> Absent, itemCount |-> {}, file |-> {},
     row |-> {},            \* the row a handler read
     lastID |-> 0,
     status |-> 0, msg |-> "", cause |-> "", token |-> {},
     body |-> <<>>]         \* the rows a list response carries

\* An answered request: the request with its response.  cause says which
\* branch of the handler produced the response.
Answered(r, status, msg, cause) ==
    [r EXCEPT !.pc = "done", !.status = status, !.msg = msg, !.cause = cause]

\* The request in slot s answers and the slot is free.
Respond(s, status, msg, cause) ==
    /\ last' = Answered(req[s], status, msg, cause)
    /\ req' = [req EXCEPT ![s] = Idle]

Accept(s) ==
    /\ req[s].pc = "idle"
    /\ \A t \in Slots : t < s => req[t].pc # "idle"
    /\ started < MaxRequests
    /\ started' = started + 1

\* What the client sent as its credential: no Authorization header, a header
\* with no token in it, a token login never issued, a token login issued
\* ExpiresIn or more seconds ago, or a token login issued less than that ago.
HdrClass(hdr) ==
    IF ~hdr.present THEN "absent"
    ELSE IF hdr.cred = {} THEN "empty"
    ELSE IF ~(hdr.cred \subseteq tokens) THEN "tampered"
    ELSE IF \E t \in hdr.cred : now >= t.iat + ExpiresIn THEN "expired"
    ELSE "issued"

-----------------------------------------------------------------------------
(* database/init.js *)

sampleCategories ==
    << [name |-> "Summer Clothes", itemCount |-> 26, image |-> "summer.jpg"],
       [name |-> "Winter Collection", itemCount |-> 32, image |-> "winter.jpg"],
       [name |-> "Casual Wear", itemCount |-> 45, image |-> "casual.jpg"],
       [name |-> "Formal Attire", itemCount |-> 18, image |-> "formal.jpg"],
       [name |-> "Sports & Outdoor", itemCount |-> 29, image |-> "sports.jpg"],
       [name |-> "Accessories", itemCount |-> 52, image |-> "accessories.jpg"] >>

\* A name in the uploads directory: a sample image's name, or the fieldname
\* and unique suffix multer's filename callback puts together.
SampleFile(name) == [base |-> name, suffix |-> 0]
Generated(n) == [base |-> "image", suffix |-> n]

\* The users table declares username and email UNIQUE.
UsersUniqueNotEnforced(row) == TRUE

UsersUniqueOk(row) ==
    \A u \in users : u.username # row.username /\ u.email # row.email

\* initDb on an empty database: the test user and the sample categories.
\* The sample images are not copied, so the uploads directory starts empty.
InitDb ==
    /\ \E salt \in Salts :
         users = { [id |-> 1, username |-> "admin", email |-> "admin@example.com",
                    password |-> BcryptHash("password123", salt)] }
    /\ categories =
         { [id |-> i, name |-> sampleCategories[i].name,
            item_count |-> sampleCategories[i].itemCount,
            image |-> {SampleFile(sampleCategories[i].image)},
            created_at |-> 0, updated_at |-> 0] : i \in 1..Len(sampleCategories) }
    /\ catSeq = Len(sampleCategories)
    /\ files = {}
    /\ fileSeq = 0
    /\ now = 0
    /\ req = [s \in Slots |-> Idle]
    /\ started = 0

\* The server has started and no request has been received.
Init ==
    /\ InitDb
    /\ tokens = {}
    /\ last = Idle

-----------------------------------------------------------------------------
(* routes/auth.js: POST /register *)

MsgFields == "Please enter all fields"
MsgEmailInUse == "Email already in use"
MsgUsernameTaken == "Username already taken"
MsgRegistered == "Registration successful! Please log in."
MsgServerError == "Server error"

RegisterArrive(s, username, email, password) ==
    /\ Accept(s)
    /\ LET r == [Idle EXCEPT !.kind = "register", !.username = username,
                             !.email = email, !.password = password]
       IN  IF username = Absent \/ email = Absent \/ password = Absent
           THEN /\ last' = Answered(r, 400, MsgFields, "validation")
                /\ UNCHANGED req
           ELSE /\ req' = [req EXCEPT ![s] = [r EXCEPT !.pc = "checkEmail"]]
                /\ UNCHANGED last
    /\ UNCHANGED <<users, categories, catSeq, files, fileSeq, now, tokens>>

\* The rows db.get('SELECT * FROM users WHERE email = ?') can return.
NoneByEmail(email) == {}

ByEmail(email) == { u \in users : u.email = email }

RegisterCheckEmail(s) ==
    /\ req[s].kind = "register" /\ req[s].pc = "checkEmail"
    /\ IF ByEmail(req[s].email) # {}
       THEN Respond(s, 400, MsgEmailInUse, "conflict")
       ELSE /\ req' = [req EXCEPT ![s].pc = "checkUsername"]
            /\ UNCHANGED last
    /\ UNCHANGED <<users, categories, catSeq, files, fileSeq, now, tokens, started>>

RegisterCheckUsername(s) ==
    /\ req[s].kind = "register" /\ req[s].pc = "checkUsername"
    /\ IF \E u \in users : u.username = req[s].username
       THEN Respond(s, 400, MsgUsernameTaken, "conflict")
       ELSE /\ req' = [req EXCEPT ![s].pc = "insert"]
            /\ UNCHANGED last
    /\ UNCHANGED <<users, categories, catSeq, files, fileSeq, now, tokens, started>>

\* What register stores in the password column.
StoredPassword(password, salt) == BcryptHash(password, salt)

RegisterInsert(s) ==
    /\ req[s].kind = "register" /\ req[s].pc = "insert"
    /\ \E salt \in Salts :
         LET row == [id |-> Cardinality(users) + 1,
                     username |-> req[s].username, email |-> req[s].email,
                     password |-> StoredPassword(req[s].password, salt)]
         IN  IF UsersUniqueOk(row)
             THEN /\ users' = users \cup {row}
                  /\ Respond(s, 201, MsgRegistered, "")
             ELSE \* SQLITE_CONSTRAINT is thrown and caught by the handler's catch
                  /\ users' = users
                  /\ Respond(s, 500, MsgServerError, "SQLITE_CONSTRAINT")
    /\ UNCHANGED <<categories, catSeq, files, fileSeq, now, tokens, started>>

-----------------------------------------------------------------------------
(* routes/auth.js: POST /login *)

MsgInvalid == "Invalid credentials"

Registered(email, password) ==
    \E u \in users : u.email = email /\ BcryptCompare(password, u.password)

LoginArrive(s, email, password) ==
    /\ Accept(s)
    /\ LET r == [Idle EXCEPT !.kind = "login", !.email = email, !.password = password,
                             !.known = Registered(email, password)]
       IN  IF email = Absent \/ password = Absent
           THEN /\ last' = Answered(r, 400, MsgFields, "validation")
                /\ UNCHANGED req
           ELSE /\ req' = [req EXCEPT ![s] = [r EXCEPT !.pc = "lookup"]]
                /\ UNCHANGED last
    /\ UNCHANGED <<users, categories, catSeq, files, fileSeq, now, tokens>>

\* The answer to a login whose email no user holds.
UnknownEmailDistinct == "User does not exist"

UnknownEmailMsg == MsgInvalid

\* The user row login verifies the password against.
LoginFindByUsername(r) == { u \in users : u.username = r.email }

LoginFind(r) == { u \in users : u.email = r.email }

LoginLookup(s) ==
    /\ req[s].kind = "login" /\ req[s].pc = "lookup"
    /\ LET found == LoginFind(req[s])
       IN  IF found = {}
           THEN /\ Respond(s, 400, UnknownEmailMsg, "no-user")
                /\ UNCHANGED tokens
           ELSE LET user == CHOOSE u \in found : TRUE
                IN  IF ~BcryptCompare(req[s].password, user.password)
                    THEN /\ Respond(s, 400, MsgInvalid, "mismatch")
                         /\ UNCHANGED tokens
                    ELSE LET t == JwtSign(user.id, user.username, req[s].email,
                                          JWT_SECRET, now)
                         IN  /\ tokens' = tokens \cup {t}
                             /\ last' = [Answered(req[s], 200, "", "") EXCEPT
                                            !.token = {t}]
                             /\ req' = [req EXCEPT ![s] = Idle]
    /\ UNCHANGED <<users, categories, catSeq, files, fileSeq, now, started>>

-----------------------------------------------------------------------------
(* routes/auth.js: GET /user *)

MsgUserNotFound == "User not found"

\* A request for a protected route of the given kind whose credential auth
\* refuses: auth answers 401 and does not call next(), so neither multer nor
\* the handler runs.
Denied(s, kind, hdr) ==
    /\ Accept(s)
    /\ ~Auth(hdr, now).ok
    /\ last' = Answered([Idle EXCEPT !.kind = kind, !.hdr = HdrClass(hdr)],
                        Auth(hdr, now).status, Auth(hdr, now).msg, "guard")
    /\ UNCHANGED <<users, categories, catSeq, files, fileSeq, now, tokens, req>>

\* req.user = decoded; next()
Admitted(r, hdr) ==
    [r EXCEPT !.hdr = HdrClass(hdr),
              !.user = (CHOOSE t \in Auth(hdr, now).user : TRUE).id]

GetUserArrive(s, hdr) ==
    /\ Accept(s)
    /\ Auth(hdr, now).ok
    /\ req' = [req EXCEPT ![s] =
                 Admitted([Idle EXCEPT !.kind = "getUser", !.pc = "lookup"], hdr)]
    /\ UNCHANGED <<users, categories, catSeq, files, fileSeq, now, tokens, last>>

GetUserLookup(s) ==
    /\ req[s].kind = "getUser" /\ req[s].pc = "lookup"
    /\ LET found == { u \in users : u.id = req[s].user }
       IN  IF found = {}
           THEN Respond(s, 404, MsgUserNotFound, "")
           ELSE LET u == CHOOSE x \in found : TRUE
                IN  /\ last' = [Answered(req[s], 200, "", "") EXCEPT
                                       !.user = u.id]
                    /\ req' = [req EXCEPT ![s] = Idle]
    /\ UNCHANGED <<users, categories, catSeq, files, fileSeq, now, tokens, started>>

-----------------------------------------------------------------------------
(* routes/categories.js: multer *)

\* fileSize limit, in bytes
FileSizeLimit == 5242880

Names == {"Summer Clothes", "Winter"}
ItemCounts == {5}
CategoryIds == {1, 99}

\* The file part of a multipart body, when there is one.
Uploads ==
    { [mimetype |-> <<"image", "png">>, size |-> FileSizeLimit],
      [mimetype |-> <<"image", "png">>, size |-> FileSizeLimit + 1],
      [mimetype |-> <<"text", "plain">>, size |-> FileSizeLimit] }

\* file.mimetype.startsWith('image/')
fileFilter(file) == file.mimetype[1] = "image"

MsgNotImage == "Not an image! Please upload only images."
MsgTooLarge == "File too large"

\* upload.single('image'): the outcome for the optional file part.  A file the
\* filter refuses or that exceeds the limit makes multer call next(err), which
\* Express answers with status 500 without running the handler; nothing of it
\* stays on disk.
UploadError(upload) ==
    IF upload = {} THEN ""
    ELSE LET file == CHOOSE f \in upload : TRUE
         IN  IF ~fileFilter(file) THEN MsgNotImage
             ELSE IF file.size > FileSizeLimit THEN MsgTooLarge
             ELSE ""

\* req.file after multer: the generated name of the stored file, if any.
Stored(upload) ==
    IF upload = {} \/ UploadError(upload) # "" THEN {} ELSE {Generated(fileSeq + 1)}

\* diskStorage writes an accepted file into the uploads directory.
Multer(upload) ==
    /\ files' = files \cup Stored(upload)
    /\ fileSeq' = fileSeq + Cardinality(Stored(upload))

-----------------------------------------------------------------------------
(* routes/categories.js: GET / *)

ListArrive(s, hdr) ==
    /\ Accept(s)
    /\ Auth(hdr, now).ok
    /\ req' = [req EXCEPT ![s] =
                 Admitted([Idle EXCEPT !.kind = "list", !.pc = "query"], hdr)]
    /\ UNCHANGED <<users, categories, catSeq, files, fileSeq, now, tokens, last>>

\* ORDER BY created_at DESC names no second key: the order of rows with equal
\* created_at is left to SQLite, which returns them in the order of its scan of
\* the table, forwards or backwards.
TieOrders == {"asc", "desc"}

\* db.all('SELECT * FROM categories ORDER BY created_at DESC'): row c comes
\* before row d.
OrderByCreatedDesc(c, d, tie) ==
    \/ c.created_at > d.created_at
    \/ /\ c.created_at = d.created_at
       /\ IF tie = "asc" THEN c.id < d.id ELSE c.id > d.id

SelectAll(tie) ==
    [ i \in 1..Cardinality(categories) |->
        CHOOSE c \in categories :
          Cardinality({ d \in categories : OrderByCreatedDesc(d, c, tie) }) = i - 1 ]

\* image: category.image ? `/uploads/${category.image}` : null
UploadsPath(image) == { [dir |-> "/uploads/", file |-> f] : f \in image }

transformedCategories(rows) ==
    [ i \in DOMAIN rows |->
        [id |-> rows[i].id, name |-> rows[i].name,
         itemCount |-> rows[i].item_count, image |-> UploadsPath(rows[i].image),
         createdAt |-> rows[i].created_at, updatedAt |-> rows[i].updated_at] ]

ListQuery(s) ==
    /\ req[s].kind = "list" /\ req[s].pc = "query"
    /\ \E tie \in TieOrders :
         /\ last' = [Answered(req[s], 200, "", "") EXCEPT
                       !.body = transformedCategories(SelectAll(tie))]
         /\ req' = [req EXCEPT ![s] = Idle]
    /\ UNCHANGED <<users, categories, catSeq, files, fileSeq, now, tokens, started>>

-----------------------------------------------------------------------------
(* routes/categories.js: POST / *)

MsgNameRequired == "Category name is required"
MsgExists == "Category already exists"

\* The middleware chain auth, upload.single('image'), and the handler's
\* validation of the body multer has parsed.
CreateArrive(s, hdr, name, upload) ==
    /\ Accept(s)
    /\ Auth(hdr, now).ok
    /\ Multer(upload)
    /\ LET r == Admitted([Idle EXCEPT !.kind = "create", !.name = name,
                                       !.file = Stored(upload)], hdr)
       IN  IF UploadError(upload) # ""
           THEN /\ last' = Answered(r, 500, UploadError(upload), "multer")
                /\ UNCHANGED req
           ELSE IF name = Absent
           THEN /\ last' = Answered(r, 400, MsgNameRequired, "validation")
                /\ UNCHANGED req
           ELSE /\ req' = [req EXCEPT ![s] = [r EXCEPT !.pc = "check"]]
                /\ UNCHANGED last
    /\ UNCHANGED <<users, categories, catSeq, now, tokens>>

\* The rows db.get('SELECT * FROM categories WHERE name = ?') can return.
NoneByName(r) == {}

ByName(r) == { c \in categories : c.name = r.name }

CreateCheck(s) ==
    /\ req[s].kind = "create" /\ req[s].pc = "check"
    /\ IF ByName(req[s]) # {}
       THEN Respond(s, 400, MsgExists, "conflict")
       ELSE /\ req' = [req EXCEPT ![s].pc = "insert"]
            /\ UNCHANGED last
    /\ UNCHANGED <<users, categories, catSeq, files, fileSeq, now, tokens, started>>

\* itemCount || 0
OrZero(itemCount) == IF itemCount = {} THEN 0 ELSE CHOOSE n \in itemCount : TRUE

\* The categories table has no constraint on name: the insert always succeeds.
CreateInsert(s, itemCount) ==
    /\ req[s].kind = "create" /\ req[s].pc = "insert"
    /\ categories' = categories \cup
         { [id |-> catSeq + 1, name |-> req[s].name,
            item_count |-> OrZero(itemCount), image |-> req[s].file,
            created_at |-> now, updated_at |-> now] }
    /\ catSeq' = catSeq + 1
    /\ req' = [req EXCEPT ![s].pc = "reread", ![s].itemCount = itemCount,
                          ![s].lastID = catSeq + 1]
    /\ UNCHANGED <<users, files, fileSeq, now, tokens, started, last>>

\* db.get by id answers undefined when the row is gone, and reading a field of
\* undefined throws a TypeError, which the handler's catch answers with 500.
CreateReread(s) ==
    /\ req[s].kind = "create" /\ req[s].pc = "reread"
    /\ IF \E c \in categories : c.id = req[s].lastID
       THEN Respond(s, 201, "", "")
       ELSE Respond(s, 500, MsgServerError, "TypeError")
    /\ UNCHANGED <<users, categories, catSeq, files, fileSeq, now, tokens, started>>

-----------------------------------------------------------------------------
(* routes/categories.js: PUT /:id *)

MsgNotFound == "Category not found"

\* The middleware chain auth, upload.single('image').
UpdateArrive(s, hdr, id, upload) ==
    /\ Accept(s)
    /\ Auth(hdr, now).ok
    /\ Multer(upload)
    /\ LET r == Admitted([Idle EXCEPT !.kind = "update", !.id = id,
                                       !.file = Stored(upload)], hdr)
       IN  IF UploadError(upload) # ""
           THEN /\ last' = Answered(r, 500, UploadError(upload), "multer")
                /\ UNCHANGED req
           ELSE /\ req' = [req EXCEPT ![s] = [r EXCEPT !.pc = "check"]]
                /\ UNCHANGED last
    /\ UNCHANGED <<users, categories, catSeq, now, tokens>>

ById(id) == { c \in categories : c.id = id }

UpdateCheck(s) ==
    /\ req[s].kind = "update" /\ req[s].pc = "check"
    /\ IF ById(req[s].id) = {}
       THEN Respond(s, 404, MsgNotFound, "not-found")
       ELSE /\ req' = [req EXCEPT ![s].pc = "write", ![s].row = ById(req[s].id)]
            /\ UNCHANGED last
    /\ UNCHANGED <<users, categories, catSeq, files, fileSeq, now, tokens, started>>

\* The row UPDATE writes, from the request and from the row read before.
Merged(r) ==
    LET category == CHOOSE c \in r.row : TRUE
    IN  [category EXCEPT
           !.name = IF r.name # Absent THEN r.name ELSE category.name,
           !.item_count = IF r.itemCount # {} THEN CHOOSE n \in r.itemCount : TRUE
                          ELSE category.item_count,
           !.image = IF r.file # {} THEN r.file ELSE category.image,
           !.updated_at = now]

\* An update that refuses a name another row has.
UpdateWriteUnique(s, name, itemCount) ==
    /\ req[s].kind = "update" /\ req[s].pc = "write"
    /\ LET r == [req[s] EXCEPT !.name = name, !.itemCount = itemCount]
       IN  IF \E d \in categories : d.id # r.id /\ d.name = name
           THEN /\ last' = Answered(r, 400, MsgExists, "conflict")
                /\ req' = [req EXCEPT ![s] = Idle]
                /\ UNCHANGED categories
           ELSE /\ categories' =
                     { IF c.id = r.id
                       THEN [Merged(r) EXCEPT !.created_at = c.created_at]
                       ELSE c : c \in categories }
                /\ req' = [req EXCEPT ![s] = [r EXCEPT !.pc = "reread"]]
                /\ UNCHANGED last
    /\ UNCHANGED <<users, catSeq, files, fileSeq, now, tokens, started>>

\* UPDATE ... WHERE id = ?: no row is written when the row is gone; created_at
\* is not among the columns set.
UpdateWrite(s, name, itemCount) ==
    /\ req[s].kind = "update" /\ req[s].pc = "write"
    /\ LET r == [req[s] EXCEPT !.name = name, !.itemCount = itemCount]
       IN  /\ categories' =
                { IF c.id = r.id
                  THEN [Merged(r) EXCEPT !.created_at = c.created_at]
                  ELSE c : c \in categories }
           /\ req' = [req EXCEPT ![s] = [r EXCEPT !.pc = "reread"]]
    /\ UNCHANGED <<users, catSeq, files, fileSeq, now, tokens, started, last>>

UpdateReread(s) ==
    /\ req[s].kind = "update" /\ req[s].pc = "reread"
    /\ IF ById(req[s].id) # {}
       THEN Respond(s, 200, "", "")
       ELSE Respond(s, 500, MsgServerError, "TypeError")
    /\ UNCHANGED <<users, categories, catSeq, files, fileSeq, now, tokens, started>>

-----------------------------------------------------------------------------
(* routes/categories.js: DELETE /:id *)

MsgDeleted == "Category deleted successfully"

DeleteArrive(s, hdr, id) ==
    /\ Accept(s)
    /\ Auth(hdr, now).ok
    /\ req' = [req EXCEPT ![s] =
                 Admitted([Idle EXCEPT !.kind = "delete", !.pc = "check", !.id = id], hdr)]
    /\ UNCHANGED <<users, categories, catSeq, files, fileSeq, now, tokens, last>>

\* fs.existsSync(imagePath)
existsSync(image) == image \subseteq files

\* The files the handler calls fs.unlinkSync on: the image of the row, when the
\* row has one and, as fs.existsSync guards the call, when the file is there.
UnlinkedUnguarded(image) == image

Unlinked(image) == IF image # {} /\ existsSync(image) THEN image ELSE {}

\* The existence check and, in the same turn, the removal of the image file.
\* fs.unlinkSync of a file that is not there throws ENOENT, which the handler's
\* catch answers with 500.
DeleteCheck(s) ==
    /\ req[s].kind = "delete" /\ req[s].pc = "check"
    /\ IF ById(req[s].id) = {}
       THEN /\ Respond(s, 404, MsgNotFound, "not-found")
            /\ UNCHANGED files
       ELSE LET category == CHOOSE c \in ById(req[s].id) : TRUE
            IN  IF ~(Unlinked(category.image) \subseteq files)
                THEN /\ Respond(s, 500, MsgServerError, "ENOENT")
                     /\ UNCHANGED files
                ELSE /\ files' = files \ Unlinked(category.image)
                     /\ req' = [req EXCEPT ![s].pc = "remove", ![s].row = {category}]
                     /\ UNCHANGED last
    /\ UNCHANGED <<users, categories, catSeq, fileSeq, now, tokens, started>>

DeleteRemove(s) ==
    /\ req[s].kind = "delete" /\ req[s].pc = "remove"
    /\ categories' = { c \in categories : c.id # req[s].id }
    /\ Respond(s, 200, MsgDeleted, "")
    /\ UNCHANGED <<users, catSeq, files, fileSeq, now, tokens, started>>

-----------------------------------------------------------------------------
(* The clock *)

\* Time passes, half a token lifetime at a time.
Advance(limit) ==
    /\ now < limit * (ExpiresIn \div 2)
    /\ now' = now + (ExpiresIn \div 2)
    /\ UNCHANGED <<users, categories, catSeq, files, fileSeq, tokens, req, started, last>>

-----------------------------------------------------------------------------

\* The requests a client can send, each with every input it can carry.  A slot
\* that is free takes an arriving request; a busy one runs its next query.
Free(s) == req[s].pc = "idle"

Admissible == { h \in Headers : Auth(h, now).ok }

Register(s) ==
    \/ /\ Free(s)
       /\ \E u \in Usernames \cup {Absent}, e \in Emails \cup {Absent},
             p \in Passwords \cup {Absent} : RegisterArrive(s, u, e, p)
    \/ RegisterCheckEmail(s)
    \/ RegisterCheckUsername(s)
    \/ RegisterInsert(s)

Login(s) ==
    \/ /\ Free(s)
       /\ \E e \in Emails \cup {Absent}, p \in Passwords \cup {Absent} :
             LoginArrive(s, e, p)
    \/ LoginLookup(s)

GetUser(s) ==
    \/ /\ Free(s)
       /\ \E h \in Headers \ Admissible : Denied(s, "getUser", h)
    \/ /\ Free(s)
       /\ \E h \in Admissible : GetUserArrive(s, h)
    \/ GetUserLookup(s)

\* res.json() writes the response in the same turn as the step that produced
\* it: `last` holds a response only until it is on the wire, and nothing else
\* runs in between.
Pending == last.pc = "done"

Sent ==
    /\ Pending
    /\ last' = Idle
    /\ UNCHANGED <<users, categories, catSeq, files, fileSeq, now, tokens, req, started>>

NextAuth ==
    \/ /\ ~Pending
       /\ \/ \E s \in Slots : Register(s)
          \/ \E s \in Slots : Login(s)
          \/ \E s \in Slots : GetUser(s)
          \/ Advance(MaxTicks)
    \/ Sent

SpecAuth == Init /\ [][NextAuth]_vars

List(s) ==
    \/ /\ Free(s)
       /\ \E h \in Headers \ Admissible : Denied(s, "list", h)
    \/ /\ Free(s)
       /\ \E h \in Admissible : ListArrive(s, h)
    \/ ListQuery(s)

\* The fields of a multipart body.  The client fixes them when it sends the
\* request; a field that the handler reads only in a later query is drawn
\* there, which no run can tell apart from drawing it on arrival.
BodyNames == Names \cup {Absent}
BodyItemCounts == {{}} \cup {{i} : i \in ItemCounts}
BodyUploads == {{}} \cup {{f} : f \in Uploads}

Create(s) ==
    \/ /\ Free(s)
       /\ \E h \in Headers \ Admissible : Denied(s, "create", h)
    \/ /\ Free(s)
       /\ \E h \in Admissible, n \in BodyNames, u \in BodyUploads :
             CreateArrive(s, h, n, u)
    \/ CreateCheck(s)
    \/ \E k \in BodyItemCounts : CreateInsert(s, k)
    \/ CreateReread(s)

Update(s) ==
    \/ /\ Free(s)
       /\ \E h \in Headers \ Admissible : Denied(s, "update", h)
    \/ /\ Free(s)
       /\ \E h \in Admissible, i \in CategoryIds, u \in BodyUploads :
             UpdateArrive(s, h, i, u)
    \/ UpdateCheck(s)
    \/ \E n \in BodyNames, k \in BodyItemCounts : UpdateWrite(s, n, k)
    \/ UpdateReread(s)

Delete(s) ==
    \/ /\ Free(s)
       /\ \E h \in Headers \ Admissible : Denied(s, "delete", h)
    \/ /\ Free(s)
       /\ \E h \in Admissible, i \in CategoryIds : DeleteArrive(s, h, i)
    \/ DeleteCheck(s)
    \/ DeleteRemove(s)

\* The state once the test user has logged in at time 0.
AdminToken == JwtSign(1, "admin", "admin@example.com", JWT_SECRET, 0)

InitCat ==
    /\ InitDb
    /\ tokens = {AdminToken}
    /\ last = Idle

NextCat ==
    \/ /\ ~Pending
       /\ \/ \E s \in Slots : GetUser(s)
          \/ \E s \in Slots : List(s)
          \/ \E s \in Slots : Create(s)
          \/ \E s \in Slots : Update(s)
          \/ \E s \in Slots : Delete(s)
          \/ Advance(MaxCatTicks)
    \/ Sent

SpecCat == InitCat /\ [][NextCat]_vars

Next == NextAuth \/ NextCat

Spec == Init /\ [][Next]_vars

-----------------------------------------------------------------------------
(* Serial use of POST /api/categories: a create request arrives only when   *)
(* no other request is in flight.                                          *)

Serial == \A s \in Slots : Free(s)

NextSerial ==
    \/ /\ ~Pending
       /\ \/ \E s \in Slots : (Free(s) => Serial) /\ Create(s)
          \/ Advance(MaxCatTicks)
    \/ Sent

SpecSerial == InitCat /\ [][NextSerial]_vars

-----------------------------------------------------------------------------
(* The state once the test user has logged in and created the category     *)
(* "Spring", with an image and no itemCount, at time 0.  From there         *)
(* SpecList has creates and lists arrive one at a time, and SpecImage has   *)
(* updates and deletes run concurrently.                                   *)

InitList ==
    /\ \E salt \in Salts :
         users = { [id |-> 1, username |-> "admin", email |-> "admin@example.com",
                    password |-> BcryptHash("password123", salt)] }
    /\ categories =
         { [id |-> i, name |-> sampleCategories[i].name,
            item_count |-> sampleCategories[i].itemCount,
            image |-> {SampleFile(sampleCategories[i].image)},
            created_at |-> 0, updated_at |-> 0] : i \in 1..Len(sampleCategories) }
         \cup { [id |-> Len(sampleCategories) + 1, name |-> "Spring",
                 item_count |-> OrZero({}), image |-> {Generated(1)},
                 created_at |-> 0, updated_at |-> 0] }
    /\ catSeq = Len(sampleCategories) + 1
    /\ files = {Generated(1)}
    /\ fileSeq = 1
    /\ now = 0
    /\ req = [s \in Slots |-> Idle]
    /\ started = 0
    /\ tokens = {AdminToken}
    /\ last = Idle

NextList ==
    \/ /\ ~Pending
       /\ \/ \E s \in Slots : (Free(s) => Serial) /\ Create(s)
          \/ \E s \in Slots : (Free(s) => Serial) /\ List(s)
          \/ Advance(MaxCatTicks)
    \/ Sent

SpecList == InitList /\ [][NextList]_vars

ImageIds == {Len(sampleCategories) + 1}

UpdateImage(s) ==
    \/ /\ Free(s)
       /\ \E h \in Admissible, i \in ImageIds, u \in BodyUploads :
             UpdateArrive(s, h, i, u)
    \/ UpdateCheck(s)
    \/ \E n \in BodyNames, k \in BodyItemCounts : UpdateWrite(s, n, k)
    \/ UpdateReread(s)

DeleteImage(s) ==
    \/ /\ Free(s)
       /\ \E h \in Admissible, i \in ImageIds : DeleteArrive(s, h, i)
    \/ DeleteCheck(s)
    \/ DeleteRemove(s)

NextImage ==
    \/ /\ ~Pending
       /\ \/ \E s \in Slots : UpdateImage(s)
          \/ \E s \in Slots : DeleteImage(s)
          \/ Advance(MaxCatTicks)
    \/ Sent

SpecImage == InitList /\ [][NextImage]_vars

-----------------------------------------------------------------------------
(* Creates and updates with any itemCount: the body field is whatever the   *)
(* client sends, a negative number included.                               *)

AnyItemCounts == {{}} \cup {{i} : i \in ItemCounts \cup {0, -1}}

CreateCounted(s) ==
    \/ /\ Free(s)
       /\ \E h \in Admissible, n \in Names : CreateArrive(s, h, n, {})
    \/ CreateCheck(s)
    \/ \E k \in AnyItemCounts : CreateInsert(s, k)
    \/ CreateReread(s)

UpdateCounted(s) ==
    \/ /\ Free(s)
       /\ \E h \in Admissible, i \in CategoryIds : UpdateArrive(s, h, i, {})
    \/ UpdateCheck(s)
    \/ \E k \in AnyItemCounts : UpdateWrite(s, Absent, k)
    \/ UpdateReread(s)

NextCount ==
    \/ /\ ~Pending
       /\ \/ \E s \in Slots : CreateCounted(s)
          \/ \E s \in Slots : UpdateCounted(s)
          \/ Advance(MaxCatTicks)
    \/ Sent

SpecCount == InitCat /\ [][NextCount]_vars

-----------------------------------------------------------------------------
(* Updates and deletes of the sample categories, whose image files are not  *)
(* in the uploads directory.                                               *)

NextRemove ==
    \/ /\ ~Pending
       /\ \/ \E s \in Slots : Update(s)
          \/ \E s \in Slots : Delete(s)
          \/ Advance(MaxCatTicks)
    \/ Sent

SpecRemove == InitCat /\ [][NextRemove]_vars

-----------------------------------------------------------------------------
(* Creates and updates, one request at a time.                              *)

NextRename ==
    \/ /\ ~Pending
       /\ \/ \E s \in Slots : (Free(s) => Serial) /\ Create(s)
          \/ \E s \in Slots : (Free(s) => Serial) /\ Update(s)
          \/ Advance(MaxCatTicks)
    \/ Sent

SpecRename == InitCat /\ [][NextRename]_vars

-----------------------------------------------------------------------------
(* Properties *)

Protected == {"getUser", "list", "create", "update", "delete"}

StoreUnchanged == UNCHANGED <<users, categories, catSeq, files, fileSeq>>

\* The request a step belongs to: the one that arrives, runs a query, or is
\* answered in the step.
Acting ==
    IF req' = req THEN last'
    ELSE LET s == CHOOSE x \in Slots : req'[x] # req[x]
         IN  IF req[s].pc = "idle" THEN req'[s] ELSE req[s]

\* C1: a registration whose username and email no user holds passes both
\* checks and its insert answers 201 and adds exactly one user, under whose
\* email the submitted password verifies; users are never removed; and a login
\* with an email and password that were registered when it arrived answers 200
\* with a token.
C1_RegisterThenLogin ==
    /\ [][\A s \in Slots :
            LET r == req[s]
            IN  ( /\ r.kind = "register"
                  /\ req'[s] # r
                  /\ \A u \in users : u.username # r.username /\ u.email # r.email )
                => CASE r.pc = "checkEmail" ->
                          req'[s].pc = "checkUsername" /\ users' = users
                     [] r.pc = "checkUsername" ->
                          req'[s].pc = "insert" /\ users' = users
                     [] r.pc = "insert" ->
                          /\ last'.pc = "done" /\ last'.status = 201
                          /\ users \subseteq users'
                          /\ Cardinality(users') = Cardinality(users) + 1
                          /\ \E u \in users' \ users :
                               /\ u.username = r.username /\ u.email = r.email
                               /\ u.password.alg = "bcrypt"
                               /\ u.password.of = r.password ]_vars
    /\ [][users \subseteq users']_vars
    /\ [](Pending /\ last.kind = "login" /\ last.known
            => /\ last.status = 200
               /\ \E t \in last.token : t.email = last.email /\ t \in tokens)

\* A user registered in this run has logged in.
C1_Witness ==
    /\ Pending /\ last.kind = "login" /\ last.status = 200
    /\ \E t \in last.token : t.id > 1

\* C2: no two user rows share a username, an email or an id, and every
\* password column holds a bcrypt digest, never the submitted text.
C2_UsersUniqueAndHashed ==
    /\ \A u, v \in users :
         (u.username = v.username \/ u.email = v.email \/ u.id = v.id) => u = v
    /\ \A u \in users : u.password.alg = "bcrypt" /\ u.password # Plaintext(u.password.of)

\* Two registrations raced for the same username or email: one row was added
\* and the second insert was refused.
C2_Witness ==
    /\ Pending /\ last.kind = "register" /\ last.cause = "SQLITE_CONSTRAINT"
    /\ Cardinality(users) = 2

\* C3: a registration starts with the email check; when a user holds the email
\* at that check the answer is 400 'Email already in use', also when the
\* username is held too; when a user holds the username at the username check
\* the answer is 400 'Username already taken'; neither adds a user.
C3_ConflictNamesField ==
    [][\A s \in Slots :
         LET r == req[s]
         IN  /\ (r.pc = "idle" /\ req'[s].kind = "register")
                  => req'[s].pc = "checkEmail"
             /\ (r.kind = "register" /\ r.pc = "checkEmail" /\ req'[s] # r
                   /\ \E u \in users : u.email = r.email)
                  => /\ last'.pc = "done" /\ last'.status = 400
                     /\ last'.msg = MsgEmailInUse
                     /\ users' = users
             /\ (r.kind = "register" /\ r.pc = "checkUsername" /\ req'[s] # r
                   /\ \E u \in users : u.username = r.username)
                  => /\ last'.pc = "done" /\ last'.status = 400
                     /\ last'.msg = MsgUsernameTaken
                     /\ users' = users
             /\ (r.kind = "register" /\ r.pc = "checkUsername")
                  => req'[s].pc \in {"checkUsername", "insert", "idle"} ]_vars

\* Both the username and the email are held, and the email is the one reported.
C3_Witness ==
    /\ Pending /\ last.kind = "register" /\ last.msg = MsgEmailInUse
    /\ \E u \in users : u.username = last.username

\* C4: the registration that loses a race for a username or an email (its
\* insert is refused by the UNIQUE constraint) is answered with the conflict
\* error, status 400.
C4_LoserGetsConflict ==
    (Pending /\ last.kind = "register" /\ last.cause = "SQLITE_CONSTRAINT")
      => last.status = 400 /\ last.msg \in {MsgEmailInUse, MsgUsernameTaken}

\* C5: a login with an email no user holds and a login with a wrong password
\* get the same answer, status 400 and 'Invalid credentials' and no token, and
\* no step of a login changes the store.
C5_LoginFailuresIdentical ==
    /\ [](Pending /\ last.kind = "login" /\ last.cause \in {"no-user", "mismatch"}
            => last.status = 400 /\ last.msg = MsgInvalid /\ last.token = {})
    /\ [][Acting.kind = "login" => StoreUnchanged]_vars

\* A login with a registered email and a wrong password has failed.
C5_Witness ==
    /\ Pending /\ last.kind = "login" /\ last.cause = "mismatch"
    /\ \E u \in users : u.email = last.email

\* C6: a protected request is admitted exactly when it presents a token that
\* login issued less than ExpiresIn seconds ago; one that presents a token
\* login never issued, or one issued ExpiresIn or more seconds ago, is
\* answered 401 and no handler runs for it.
C6_TokenValidity ==
    [][Acting.kind \in Protected
         => /\ (Acting.hdr = "issued") = (Acting.cause # "guard")
            /\ (Acting.hdr \in {"tampered", "expired"})
                 => /\ last' = Acting /\ last'.status = 401
                    /\ req' = req /\ StoreUnchanged ]_vars

\* A token has been refused because its hour has passed.
C6_Witness ==
    /\ Pending /\ last.kind = "getUser" /\ last.hdr = "expired"
    /\ last.status = 401

\* C7: a request to a protected route without a valid credential is answered
\* 401, starts no handler and changes neither the store nor the uploads
\* directory; every change to them is made by a request with a valid credential.
C7_DeniedChangesNothing ==
    [][/\ (Acting.kind \in Protected /\ Acting.hdr # "issued")
            => /\ last' = Acting /\ last'.status = 401
               /\ req' = req /\ StoreUnchanged
       /\ ~StoreUnchanged => Acting.kind \in Protected /\ Acting.hdr = "issued" ]_vars

\* A create request with a forged token has been refused.
C7_Witness ==
    /\ Pending /\ last.kind = "create"
    /\ last.hdr = "tampered" /\ last.status = 401
    /\ files = {} /\ catSeq = Len(sampleCategories)

\* C8: a protected request with no Authorization header is answered 401 with
\* the message that says no token was provided.
C8_MissingHeaderMessage ==
    (Pending /\ last.kind \in Protected /\ last.hdr = "absent")
      => last.status = 401 /\ last.msg = MsgNoToken

\* C9: with creates arriving one at a time, a create whose name a category
\* already has is answered 400 'Category already exists' and adds no row, and
\* no two categories have the same name.
C9_SerialCreateUnique ==
    /\ [][\A s \in Slots :
            LET r == req[s]
            IN  ( /\ r.kind = "create" /\ r.pc = "check" /\ req'[s] # r
                  /\ \E c \in categories : c.name = r.name )
                => /\ last'.pc = "done" /\ last'.status = 400
                   /\ last'.msg = MsgExists
                   /\ categories' = categories /\ catSeq' = catSeq ]_vars
    /\ [](\A c, d \in categories : c.name = d.name => c = d)

\* A category was created and a later create of the same name was refused.
C9_Witness ==
    /\ Pending /\ last.kind = "create" /\ last.msg = MsgExists
    /\ \E c \in categories : c.id > Len(sampleCategories) /\ c.name = last.name

\* C10: of two concurrent creates of the same name only one inserts a row:
\* never have two creates in flight both inserted a row of the same name.
C10_RaceOneInsert ==
    \A s, t \in Slots :
      ( /\ s # t
        /\ req[s].kind = "create" /\ req[s].pc = "reread"
        /\ req[t].kind = "create" /\ req[t].pc = "reread"
        /\ req[s].name = req[t].name )
      => ~ \E c, d \in categories :
             c.id = req[s].lastID /\ d.id = req[t].lastID /\ c.name = d.name

\* C11: a list response carries every category row exactly once, and of two
\* rows created by creates that ran one after the other, the one created later
\* comes earlier in it, also when both were created in the same second.
C11_ListNewestFirst ==
    (Pending /\ last.kind = "list" /\ last.status = 200)
      => /\ Len(last.body) = Cardinality(categories)
         /\ \A c \in categories :
              Cardinality({ i \in DOMAIN last.body : last.body[i].id = c.id }) = 1
         /\ \A i, j \in DOMAIN last.body :
              ( /\ last.body[i].id > Len(sampleCategories)
                /\ last.body[j].id > last.body[i].id )
              => j < i

\* C12: a delete that succeeds leaves no row of its id and no file that the
\* row it deleted referenced in the uploads directory; it removes no other
\* row, and the only file a delete removes is the one its row referenced.
C12_DeleteRemovesRowAndFile ==
    [][\A s \in Slots :
         LET r == req[s]
             mine == { c \in categories : c.id = r.id }
         IN  (r.kind = "delete" /\ req'[s] # r)
             => /\ r.pc = "check"
                     => /\ categories' = categories
                        /\ files' \subseteq files
                        /\ files \ files' \subseteq UNION { c.image : c \in mine }
                /\ r.pc = "remove"
                     => /\ last'.pc = "done" /\ last'.status = 200
                        /\ categories' = categories \ mine
                        /\ files' = files
                        /\ \A c \in mine : c.image \cap files' = {} ]_vars

\* C13: the write of an update keeps the row's name when the request has no
\* name, its item count when it has no itemCount and its image when it has no
\* upload; it stores a supplied itemCount, sets updated_at to the current time,
\* and changes no other row and no file.
C13_PartialUpdateKeepsRest ==
    [][\A s \in Slots :
         LET r == req[s]
             q == req'[s]
         IN  (r.kind = "update" /\ r.pc = "write" /\ q # r)
             => /\ files' = files
                /\ Cardinality(categories') = Cardinality(categories)
                /\ \A c \in categories :
                     IF c.id # r.id THEN c \in categories'
                     ELSE \E e \in categories' :
                            /\ e.id = c.id /\ e.created_at = c.created_at
                            /\ q.name = Absent => e.name = c.name
                            /\ q.itemCount = {} => e.item_count = c.item_count
                            /\ q.itemCount # {} => {e.item_count} = q.itemCount
                            /\ q.file = {} => e.image = c.image
                            /\ e.updated_at = now /\ e.updated_at >= c.updated_at ]_vars

\* C14: a create whose upload the file filter refuses as not an image is
\* answered with the validation status 400, and it inserts no row and stores
\* no file.
C14_NonImageIsValidationError ==
    [][( /\ ~Pending /\ last'.pc = "done"
         /\ last'.kind = "create" /\ last'.cause = "multer"
         /\ last'.msg = MsgNotImage )
       => /\ last'.status = 400
          /\ categories' = categories /\ catSeq' = catSeq
          /\ files' = files ]_vars

\* C15: the item count of every category row is a non-negative integer,
\* whatever itemCount the create and update requests carried.
C15_ItemCountNonNegative ==
    \A c \in categories : c.item_count \in Nat

\* C16: an update whose id has no row at its existence query is answered 404
\* and changes nothing, and every update that got past auth and multer is
\* answered 200 or 404, also when a concurrent delete removes its row after
\* the existence query.
C16_UpdateNotFound ==
    /\ [][\A s \in Slots :
            LET r == req[s]
            IN  ( /\ r.kind = "update" /\ r.pc = "check" /\ req'[s] # r
                  /\ \A c \in categories : c.id # r.id )
                => /\ last'.pc = "done" /\ last'.status = 404
                   /\ last'.msg = MsgNotFound
                   /\ StoreUnchanged ]_vars
    /\ []( (Pending /\ last.kind = "update" /\ last.cause \notin {"guard", "multer"})
             => last.status \in {200, 404} )

\* The files some category row references, and the uploads of the requests
\* in flight.
Referenced == UNION { c.image : c \in categories }

InFlight == UNION { req[s].file : s \in Slots }

\* C17: the write of an update that carries an upload makes the stored file
\* the row's image and removes no file; only a delete removes files, and only
\* the file its row references; a file in the uploads directory that no row
\* references and no request in flight has uploaded stays there, referenced
\* by no row.
C17_ReplacedFileStays ==
    [][/\ \A s \in Slots :
            LET r == req[s]
                mine == { c \in categories : c.id = r.id }
            IN  /\ ( /\ r.kind = "update" /\ r.pc = "write" /\ req'[s] # r
                      /\ r.file # {} )
                    => /\ files' = files
                       /\ \A c \in mine : \E e \in categories' :
                            e.id = c.id /\ e.image = r.file
                /\ (r.kind = "delete" /\ req'[s] # r)
                    => files \ files' \subseteq UNION { c.image : c \in mine }
       /\ files \ files' # {} => Acting.kind = "delete"
       /\ \A f \in files \ (Referenced \cup InFlight) :
            f \in files' /\ f \notin Referenced' ]_vars

\* C18: the write of an update whose name is the name of a different category
\* is not refused: it renames the row, and the update is answered 200.
C18_RenameToExistingName ==
    [][\A s \in Slots :
         LET r == req[s]
             q == req'[s]
         IN  /\ ( /\ r.kind = "update" /\ r.pc = "write"
                   /\ (q # r \/ last' # last)
                   /\ \E c, d \in categories :
                        c.id = r.id /\ d.id # r.id /\ d.name # Absent
                          /\ d.name \in {q.name, last'.name} )
                 => /\ q.pc = "reread" /\ last' = last
                    /\ \E e \in categories' : e.id = r.id /\ e.name = q.name
             /\ ( /\ r.kind = "update" /\ r.pc = "reread" /\ q # r
                   /\ \E c \in categories : c.id = r.id )
                 => last'.pc = "done" /\ last'.status = 200 ]_vars

\* With one request at a time, an update has renamed a category to the name of
\* another one and was answered 200.
C18_Witness ==
    /\ Pending /\ last.kind = "update" /\ last.status = 200
    /\ \E c, d \in categories :
         c.id = last.id /\ d.id # c.id /\ c.name = last.name /\ d.name = c.name

\* C19: a delete of a category whose image names a file that is not in the
\* uploads directory goes on to remove the row, touching no file, and is
\* answered 200 'Category deleted successfully'.
C19_MissingFileTolerated ==
    [][\A s \in Slots :
         LET r == req[s]
             q == req'[s]
         IN  /\ ( /\ r.kind = "delete" /\ r.pc = "check" /\ q # r
                   /\ \E c \in categories :
                        c.id = r.id /\ c.image # {} /\ c.image \cap files = {} )
                 => q.pc = "remove" /\ files' = files /\ last' = last
             /\ (r.kind = "delete" /\ r.pc = "remove" /\ q # r)
                 => /\ last'.pc = "done" /\ last'.status = 200
                    /\ last'.msg = MsgDeleted
                    /\ \A c \in categories' : c.id # r.id ]_vars

\* A sample category, whose image was never in the uploads directory, has
\* been deleted.
C19_Witness ==
    /\ Pending /\ last.kind = "delete" /\ last.status = 200
    /\ \E c \in last.row :
         /\ c.id <= Len(sampleCategories) /\ c.image = {SampleFile(sampleCategories[c.id].image)}
         /\ c.image \cap files = {}
    /\ \A c \in categories : c.id # last.id

\* C20: when a create is refused with 400 (no name, or a name that exists) or
\* an update is refused with 404, the file it uploaded is not in the uploads
\* directory.
C20_RejectedLeavesNoFile ==
    ( /\ Pending
      /\ \/ last.kind = "create" /\ last.status = 400
         \/ last.kind = "update" /\ last.status = 404 )
      => last.file \cap files = {}

=============================================================================
